---- MODULE Spec2Model ----
(***************************************************************************)
(* Model of the PGVA-1 Modbus register client (PGVAModbusClient and its    *)
(* TCP subclass) of festo-pgva, src/src/pgva/pgva_communication.py.        *)
(*                                                                         *)
(* The state is the client's cached firmware version, the device's         *)
(* firmware and pump-enable registers, and the record of the public        *)
(* operation in progress or last completed: its name, argument, outcome    *)
(* the value it returned and the transport calls it has put on the wire.   *)
(* A public operation is one action up to the point where _set_data enters *)
(* its status-poll loop; each further iteration of that loop is one        *)
(* PollStatus step.                                                        *)
(* Every transport call either answers or raises ModbusException.          *)
(* The client is the backend of a PGVA facade (src/src/pgva/pgva.py),      *)
(* whose constructor and forwarding methods are followed in FacadeSpec.    *)
(***************************************************************************)
EXTENDS Integers, Sequences, FiniteSets

VARIABLES version, fw, pumpReg, pc, op, arg, result, wire, polls, ret,
          config, backend, backendCalls

vars == <<version, fw, pumpReg, pc, op, arg, result, wire, polls, ret,
          config, backend, backendCalls>>

\* The PGVA facade over the client: its _config and _backend attributes and
\* the backend constructions and calls its last operation has made.
facade == <<config, backend, backendCalls>>

(***************************************************************************)
(* Bounds of the model.                                                    *)
(***************************************************************************)
\* Arguments are drawn from windows of this half-width around each limit.
Margin == 2
\* The configured timeout of a write, counted in status polls.
TimeoutPolls == 2
\* Bit widths up to this one are tried with every raw value; wider ones with
\* the raw values around 0, the sign bit and the top of the range.
FullBits == 8
\* Transport calls of two concurrent callers that are followed.
MaxConcWire == 4
\* Status polls of one operation that are counted and logged one by one;
\* later polls still happen and overwrite the last log entry.
MaxPolls == TimeoutPolls + 2

(***************************************************************************)
(* Hardware limits, _constants.py.                                         *)
(***************************************************************************)
MAXIMUM_OUTPUT_PRESSURE_MBAR == 450
MINIMUM_OUTPUT_PRESSURE_MBAR == -450
MAXIMUM_PRESSURE_CHAMBER_MBAR == 1000
MINIMUM_PRESSURE_CHAMBER_MBAR == 200
MAXIMUM_VACUUM_CHAMBER_MBAR == -200
MINIMUM_VACUUM_CHAMBER_MBAR == -900

\* range(5, 65535) of set_actuation_time: 5 inclusive, 65535 exclusive.
ACTUATION_TIME_START == 5
ACTUATION_TIME_STOP == 65535

\* None, as _get_data and _get_data_holding return it when the read raised.
NoneVal == -1
\* The answer of a transport call that raised ModbusException.
Raised == -2

\* self.version[0:3] != [2, 1, 3]: the firmware without pump enable.
FW_NO_PUMP_ENABLE == <<2, 1, 3>>

(***************************************************************************)
(* Inputs.                                                                 *)
(***************************************************************************)
Window(x) == (x - Margin)..(x + Margin)

OutputPressureArgs ==
    Window(MINIMUM_OUTPUT_PRESSURE_MBAR) \cup Window(MAXIMUM_OUTPUT_PRESSURE_MBAR)
        \cup {-200, -1, 0, 100, 200}

PressureChamberArgs ==
    Window(MINIMUM_PRESSURE_CHAMBER_MBAR) \cup Window(MAXIMUM_PRESSURE_CHAMBER_MBAR)
        \cup {-200, 0, 600}

VacuumChamberArgs ==
    Window(MINIMUM_VACUUM_CHAMBER_MBAR) \cup Window(MAXIMUM_VACUUM_CHAMBER_MBAR)
        \cup {-554, -500, -277, 0, 200}

ActuationTimeArgs ==
    Window(ACTUATION_TIME_START) \cup Window(ACTUATION_TIME_STOP) \cup {-5, 0, 1000}

\* The firmware triples a device may report.
DeviceFirmwares == {<<2, 1, 3>>, <<2, 0, 45>>}

\* The status words the device answers: bit 0 is the busy bit, bit 1 belongs
\* to the pump field.
StatusWords == {0, 1, 2}

\* The raw sensor registers the device answers on a read.
VacuumRaws == {0, 300, 65086}

PressureRaws == {500}

OutputRaws == {200, 500, 501, 65086}

ExtSensorRaws == {7}

\* The status, warning, error and modbus-error words the device answers.
WordReads == {0, 1, 4, 6, 65535}

(***************************************************************************)
(* Pure helpers.                                                           *)
(***************************************************************************)
RECURSIVE Pow2(_)
\* 1 << n
Pow2(n) == IF n = 0 THEN 1 ELSE 2 * Pow2(n - 1)

RECURSIVE BitLength(_)
\* len(bin(n)[2:]) for n >= 0: the bit length of n, and 1 for n = 0.
BitLength(n) == IF n < 2 THEN 1 ELSE 1 + BitLength(n \div 2)

\* A decoding that never subtracts: the sign bit is not looked at.
ConvertTwosComp_Unsigned(val, bits) == val

\* _convert_twos_comp(val, bits): val - (1 << bits) when bit (bits - 1) of val
\* is set, val otherwise.
ConvertTwosComp(val, bits) ==
    IF (val \div Pow2(bits - 1)) % 2 # 0 THEN val - Pow2(bits) ELSE val

\* get_vacuum_chamber on the raw register: the width handed to
\* _convert_twos_comp is the bit length of the value read.
VacuumDecode(raw) == ConvertTwosComp(raw, BitLength(raw))

\* A decoding of the raws above 500 at the fixed width of 16 bits.
OutputPressureDecode_Fixed16(raw) ==
    IF raw > 500 THEN ConvertTwosComp(raw, 16) ELSE raw

\* No decoding at all: the register value as read.
OutputPressureDecode_NoSign(raw) == raw

\* get_output_pressure on the raw register.
OutputPressureDecode(raw) ==
    IF raw > 500 THEN ConvertTwosComp(raw, BitLength(raw)) ELSE raw

\* A wrap by 2**15 instead of 2**16.
EncodeSigned_HalfWrap(val) == IF val < 0 THEN val + 32768 ELSE val

\* if val < 0: val = val + 2**16   (_set_data)
EncodeSigned(val) == IF val < 0 THEN val + 65536 ELSE val

\* A busy test on the whole status word instead of its bit 0.
Busy_WholeWord(st) == st # 0

\* (status.registers[0] & 1) == 1   (_set_data)
Busy(st) == st % 2 = 1

\* An upper limit that is off by one.
OutputPressureInRange_OffByOne(pressure) ==
    /\ MINIMUM_OUTPUT_PRESSURE_MBAR <= pressure
    /\ pressure <= MAXIMUM_OUTPUT_PRESSURE_MBAR + 1

\* MINIMUM_OUTPUT_PRESSURE_MBAR <= pressure <= MAXIMUM_OUTPUT_PRESSURE_MBAR
OutputPressureInRange(pressure) ==
    /\ MINIMUM_OUTPUT_PRESSURE_MBAR <= pressure
    /\ pressure <= MAXIMUM_OUTPUT_PRESSURE_MBAR

\* A lower limit that is exclusive.
PressureChamberInRange_Strict(pressure) ==
    /\ MINIMUM_PRESSURE_CHAMBER_MBAR < pressure
    /\ pressure <= MAXIMUM_PRESSURE_CHAMBER_MBAR

\* MINIMUM_PRESSURE_CHAMBER_MBAR <= pressure <= MAXIMUM_PRESSURE_CHAMBER_MBAR
PressureChamberInRange(pressure) ==
    /\ MINIMUM_PRESSURE_CHAMBER_MBAR <= pressure
    /\ pressure <= MAXIMUM_PRESSURE_CHAMBER_MBAR

\* An upper limit that is exclusive.
VacuumChamberInRange_Strict(vacuum) ==
    /\ MINIMUM_VACUUM_CHAMBER_MBAR <= vacuum
    /\ vacuum < MAXIMUM_VACUUM_CHAMBER_MBAR

\* MINIMUM_VACUUM_CHAMBER_MBAR <= vacuum <= MAXIMUM_VACUUM_CHAMBER_MBAR
VacuumChamberInRange(vacuum) ==
    /\ MINIMUM_VACUUM_CHAMBER_MBAR <= vacuum
    /\ vacuum <= MAXIMUM_VACUUM_CHAMBER_MBAR

\* An upper limit that is inclusive.
ActuationTimeInRange_Inclusive(t) == ACTUATION_TIME_START <= t /\ t <= ACTUATION_TIME_STOP

\* actuation_time in range(5, 65535)
ActuationTimeInRange(t) == ACTUATION_TIME_START <= t /\ t < ACTUATION_TIME_STOP

\* int(pressure * PRESSURE_CHAMBER_CONVERSION_FACTOR), the factor being
\* 1 / 0.5543: the double product truncated toward zero.  On 200..1000 the
\* exact quotient pressure * 10000 / 5543 is never an integer (5543 = 23 * 241)
\* and the double product has the same integer part.
PressureChamberToRaw(pressure) == (pressure * 10000) \div 5543

\* The vacuums of the accepted range whose exact quotient by -0.277 is an
\* integer and whose double product vacuum * (1 / -0.277) falls just below it
\* (-277 gives 999.9999999999999, -554 gives 1999.9999999999998; -831 gives
\* 3000.0 exactly).
VacuumProductBelow == {-277, -554}

\* int(vacuum * VACUUM_CHAMBER_CONVERSION_FACTOR), the factor being 1 / -0.277:
\* the double product truncated toward zero.
VacuumChamberToRaw(vacuum) ==
    IF vacuum \in VacuumProductBelow
        THEN ((-vacuum) * 1000) \div 277 - 1
        ELSE ((-vacuum) * 1000) \div 277

\* A slice one element short, which never equals the triple.
FirmwareLacksPumpEnable_ShortSlice(v) == SubSeq(v, 1, 2) = FW_NO_PUMP_ENABLE

\* self.version[0:3] != [2, 1, 3] is false: the pump-enable bypass.
FirmwareLacksPumpEnable(v) == SubSeq(v, 1, 3) = FW_NO_PUMP_ENABLE

\* A test that the read did not give 0.
PumpEnabled_NotZero(r) == r # 0

\* A test that the read gave anything at all.
PumpEnabled_AnyAnswer(r) == r # NoneVal

\* self._get_data_holding(commands.PUMP_ENABLE) == 1, on what the read gave.
PumpEnabled(r) == r = 1

\* What _get_data / _get_data_holding return for an answer of the transport.
GetDataResult(resp) == IF resp = Raised THEN NoneVal ELSE resp

(***************************************************************************)
(* Values handed back to the caller: None, an integer, a list or a dict.   *)
(***************************************************************************)
RetNone == [kind |-> "None", val |-> 0]

RetInt(n) == [kind |-> "int", val |-> n]

RetList(l) == [kind |-> "list", items |-> l]

RetDict(d) == [kind |-> "dict", entries |-> d]

\* What a getter hands back for what _get_data gave it.
RetOf(x) == IF x = NoneVal THEN RetNone ELSE RetInt(x)

(***************************************************************************)
(* Configuration objects (pgva_config.py) by their class, the backend a    *)
(* facade holds, and an attribute that was never assigned.                 *)
(***************************************************************************)
TCPConfigs ==
    {[class |-> "PGVATCPConfig", interface |-> "tcp/ip", ip |-> "192.168.0.1"],
     [class |-> "PGVATCPConfig", interface |-> "tcp/ip", ip |-> "192.168.0.2"]}

SerialConfigs ==
    {[class |-> "PGVASerialConfig", interface |-> "serial", com_port |-> "COM3"]}

PlainConfigs == {[class |-> "PGVAConfig", interface |-> "tcp/ip"]}

\* Objects that are no PGVAConfig at all.
OtherObjects == {[class |-> "dict"], [class |-> "NoneType"]}

Unset == [class |-> "unset"]

\* PGVAModbusTCP(config=cfg)
TCPBackend(cfg) == [class |-> "PGVAModbusTCP", config |-> cfg]

\* PGVAModbusSerial(config=cfg)
SerialBackend(cfg) == [class |-> "PGVAModbusSerial", config |-> cfg]

\* The facade a client sits under: built from a PGVATCPConfig.
FacadeOverTCP ==
    /\ config \in {c \in TCPConfigs : c.ip = "192.168.0.1"}
    /\ backend = TCPBackend(config)
    /\ backendCalls = <<>>

(***************************************************************************)
(* Transport calls as they appear on the wire.                             *)
(***************************************************************************)
WriteCall(register, val, resp) ==
    [call |-> "write_register", reg |-> register, val |-> val, resp |-> resp]

ReadInputCall(register, resp) ==
    [call |-> "read_input_registers", reg |-> register, val |-> 0, resp |-> resp]

ReadHoldingCall(register, resp) ==
    [call |-> "read_holding_registers", reg |-> register, val |-> 0, resp |-> resp]

\* The wire after one more status poll.
LogPoll(w, n, e) == IF n < MaxPolls THEN Append(w, e) ELSE [w EXCEPT ![Len(w)] = e]

(***************************************************************************)
(* Init: the state after PGVAModbusTCP.__init__, which reads the firmware  *)
(* registers once; each of the three reads may have failed.                *)
(***************************************************************************)
FirmwareReads(f) ==
    {<<a, b, c>> : a \in {f[1], NoneVal}, b \in {f[2], NoneVal}, c \in {f[3], NoneVal}}

Init ==
    /\ fw \in DeviceFirmwares
    /\ version \in FirmwareReads(fw)
    /\ pumpReg \in {0, 1}
    /\ pc = "idle"
    /\ op = "none"
    /\ arg = 0
    /\ result = "none"
    /\ wire = <<>>
    /\ polls = 0
    /\ ret = RetNone
    /\ FacadeOverTCP

\* A _set_data that issues its write a second time when the first raised.
SetData_Retry(register, val, pre) ==
    \E wr \in {0, Raised} :
        LET enc == EncodeSigned(val)
            w == WriteCall(register, enc, wr)
        IN  /\ pumpReg' = IF register = "PUMP_ENABLE" /\ wr # Raised THEN enc ELSE pumpReg
            /\ ret' = RetNone
            /\ IF wr = Raised
                 THEN /\ wire' = pre \o <<w, w>>
                      /\ polls' = 0
                      /\ pc' = "idle"
                      /\ result' = "returned"
                 ELSE \E st \in StatusWords \cup {Raised} :
                      /\ wire' = pre \o <<w, ReadInputCall("STATUS_WORD", st)>>
                      /\ polls' = 1
                      /\ IF st # Raised /\ Busy(st)
                           THEN pc' = "poll" /\ result' = "running"
                           ELSE pc' = "idle" /\ result' = "returned"

(***************************************************************************)
(* _set_data(register, val) up to its while loop, after the transport      *)
(* calls in pre: the write, then the first status read.  A ModbusException *)
(* of either call is caught and logged, and _set_data returns.             *)
(***************************************************************************)
SetData(register, val, pre) ==
    \E wr \in {0, Raised} :
        LET enc == EncodeSigned(val)
            w == WriteCall(register, enc, wr)
        IN  /\ pumpReg' = IF register = "PUMP_ENABLE" /\ wr # Raised THEN enc ELSE pumpReg
            /\ ret' = RetNone
            /\ IF wr = Raised
                 THEN /\ wire' = Append(pre, w)
                      /\ polls' = 0
                      /\ pc' = "idle"
                      /\ result' = "returned"
                 ELSE \E st \in StatusWords \cup {Raised} :
                      /\ wire' = pre \o <<w, ReadInputCall("STATUS_WORD", st)>>
                      /\ polls' = 1
                      /\ IF st # Raised /\ Busy(st)
                           THEN pc' = "poll" /\ result' = "running"
                           ELSE pc' = "idle" /\ result' = "returned"

\* One iteration of the while loop of _set_data.
PollStatus ==
    /\ pc = "poll"
    /\ \E st \in StatusWords \cup {Raised} :
        /\ wire' = LogPoll(wire, polls, ReadInputCall("STATUS_WORD", st))
        /\ polls' = IF polls < MaxPolls THEN polls + 1 ELSE polls
        /\ IF st # Raised /\ Busy(st)
             THEN pc' = "poll" /\ result' = "running"
             ELSE pc' = "idle" /\ result' = "returned"
    /\ UNCHANGED <<facade, version, fw, pumpReg, op, arg, ret>>

\* The operation ends at once with this outcome, these transport calls and
\* this value handed back.
FinishWith(outcome, calls, value) ==
    /\ wire' = calls
    /\ polls' = 0
    /\ pc' = "idle"
    /\ result' = outcome
    /\ ret' = value
    /\ UNCHANGED pumpReg

\* The operation ends at once, returning None or raising.
Finish(outcome, calls) == FinishWith(outcome, calls, RetNone)

(***************************************************************************)
(* Public operations.                                                      *)
(***************************************************************************)
set_output_pressure(pressure) ==
    /\ pc = "idle"
    /\ op' = "set_output_pressure"
    /\ arg' = pressure
    /\ UNCHANGED <<facade, version, fw>>
    /\ IF FirmwareLacksPumpEnable(version)
         THEN \* _validate_pump_enable returns True without a read
              IF OutputPressureInRange(pressure)
                THEN SetData("OUTPUT_PRESSURE_MBAR", pressure, <<>>)
                ELSE Finish("ValueError", <<>>)
         ELSE \E r \in {pumpReg, Raised} :
              LET pre == <<ReadHoldingCall("PUMP_ENABLE", r)>>
              IN  IF PumpEnabled(GetDataResult(r))
                    THEN IF OutputPressureInRange(pressure)
                           THEN SetData("OUTPUT_PRESSURE_MBAR", pressure, pre)
                           ELSE Finish("ValueError", pre)
                    ELSE Finish("returned", pre)

set_actuation_time(actuation_time) ==
    /\ pc = "idle"
    /\ op' = "set_actuation_time"
    /\ arg' = actuation_time
    /\ UNCHANGED <<facade, version, fw>>
    /\ IF ActuationTimeInRange(actuation_time)
         THEN SetData("VALVE_ACTUATION_TIME", actuation_time, <<>>)
         ELSE Finish("ValueError", <<>>)

set_pressure_chamber(pressure) ==
    /\ pc = "idle"
    /\ op' = "set_pressure_chamber"
    /\ arg' = pressure
    /\ UNCHANGED <<facade, version, fw>>
    /\ IF PressureChamberInRange(pressure)
         THEN SetData("PRESSURE_THRESHOLD", PressureChamberToRaw(pressure), <<>>)
         ELSE Finish("ValueError", <<>>)

set_vacuum_chamber(vacuum) ==
    /\ pc = "idle"
    /\ op' = "set_vacuum_chamber"
    /\ arg' = vacuum
    /\ UNCHANGED <<facade, version, fw>>
    /\ IF VacuumChamberInRange(vacuum)
         THEN SetData("VACUUM_THRESHOLD", VacuumChamberToRaw(vacuum), <<>>)
         ELSE Finish("ValueError", <<>>)

\* A toggle that writes the opposite of what it was given.
toggle_pump_Inverted(toggle) ==
    /\ pc = "idle"
    /\ op' = "toggle_pump"
    /\ arg' = toggle
    /\ UNCHANGED <<facade, version, fw>>
    /\ IF ~FirmwareLacksPumpEnable(version)
         THEN SetData("PUMP_ENABLE", 1 - toggle, <<>>)
         ELSE Finish("returned", <<>>)

\* toggle is a bool; write_register carries it as 1 or 0.
toggle_pump(toggle) ==
    /\ pc = "idle"
    /\ op' = "toggle_pump"
    /\ arg' = toggle
    /\ UNCHANGED <<facade, version, fw>>
    /\ IF ~FirmwareLacksPumpEnable(version)
         THEN SetData("PUMP_ENABLE", toggle, <<>>)
         ELSE Finish("returned", <<>>)

\* The write of the manual trigger register put back, and no raise.
toggle_manual_trigger_Writes(toggle) ==
    /\ pc = "idle"
    /\ op' = "toggle_manual_trigger"
    /\ arg' = toggle
    /\ UNCHANGED <<facade, version, fw>>
    /\ SetData("MANUAL_TRIGGER", toggle, <<>>)

toggle_manual_trigger(toggle) ==
    /\ pc = "idle"
    /\ op' = "toggle_manual_trigger"
    /\ arg' = toggle
    /\ UNCHANGED <<facade, version, fw>>
    /\ Finish("NotImplementedError", <<>>)

\* self.version = [] and then the three reads, whatever was cached before.
get_firmware_version ==
    /\ pc = "idle"
    /\ op' = "get_firmware_version"
    /\ arg' = 0
    /\ \E a \in {fw[1], Raised}, b \in {fw[2], Raised}, c \in {fw[3], Raised} :
        /\ version' = <<GetDataResult(a), GetDataResult(b), GetDataResult(c)>>
        /\ FinishWith("returned",
                      <<ReadInputCall("FIRMWARE_VERSION", a),
                        ReadInputCall("FIRMWARE_SUBVERSION", b),
                        ReadInputCall("FIRMWARE_BUILD", c)>>,
                      RetList(<<GetDataResult(a), GetDataResult(b), GetDataResult(c)>>))
    /\ UNCHANGED <<facade, fw>>

(***************************************************************************)
(* Sensor reads.  _get_data gives None when the read raised; bin(None) and *)
(* None > 500 then raise TypeError in the caller.                          *)
(***************************************************************************)
get_vacuum_chamber ==
    /\ pc = "idle"
    /\ op' = "get_vacuum_chamber"
    /\ arg' = 0
    /\ UNCHANGED <<facade, version, fw>>
    /\ \E r \in VacuumRaws \cup {Raised} :
        LET calls == <<ReadInputCall("VACUUM_ACTUAL_MBAR", r)>>
        IN  IF GetDataResult(r) = NoneVal
              THEN FinishWith("TypeError", calls, RetNone)
              ELSE FinishWith("returned", calls, RetInt(VacuumDecode(r)))

get_pressure_chamber ==
    /\ pc = "idle"
    /\ op' = "get_pressure_chamber"
    /\ arg' = 0
    /\ UNCHANGED <<facade, version, fw>>
    /\ \E r \in PressureRaws \cup {Raised} :
        FinishWith("returned", <<ReadInputCall("PRESSURE_ACTUAL_MBAR", r)>>,
                   RetOf(GetDataResult(r)))

get_output_pressure ==
    /\ pc = "idle"
    /\ op' = "get_output_pressure"
    /\ arg' = 0
    /\ UNCHANGED <<facade, version, fw>>
    /\ \E r \in OutputRaws \cup {Raised} :
        LET calls == <<ReadInputCall("OUTPUT_PRESSURE_ACTUAL_MBAR", r)>>
        IN  IF GetDataResult(r) = NoneVal
              THEN FinishWith("TypeError", calls, RetNone)
              ELSE FinishWith("returned", calls, RetInt(OutputPressureDecode(r)))

\* The dict get_internal_sensor_data builds from the answers e, v, p, o.
SensorData(withExt, e, v, p, o) ==
    [k \in (IF withExt THEN {"Extsensor"} ELSE {})
               \cup {"VacuumChamber", "PressureChamber", "OutputPressure"} |->
        CASE k = "Extsensor" -> RetOf(GetDataResult(e))
          [] k = "VacuumChamber" -> RetInt(VacuumDecode(v))
          [] k = "PressureChamber" -> RetOf(GetDataResult(p))
          [] k = "OutputPressure" -> RetInt(OutputPressureDecode(o))]

get_internal_sensor_data ==
    /\ pc = "idle"
    /\ op' = "get_internal_sensor_data"
    /\ arg' = 0
    /\ UNCHANGED <<facade, version, fw>>
    /\ \E e \in ExtSensorRaws \cup {Raised}, v \in VacuumRaws \cup {Raised},
          p \in PressureRaws \cup {Raised}, o \in OutputRaws \cup {Raised} :
        LET withExt == ~FirmwareLacksPumpEnable(version)
            pre == IF withExt
                     THEN <<ReadInputCall("EXTERNAL_SENSOR_VALUE", e)>>
                     ELSE <<>>
            vac == ReadInputCall("VACUUM_ACTUAL_MBAR", v)
            rest == <<ReadInputCall("PRESSURE_ACTUAL_MBAR", p),
                      ReadInputCall("OUTPUT_PRESSURE_ACTUAL_MBAR", o)>>
        IN  IF GetDataResult(v) = NoneVal
              THEN FinishWith("TypeError", Append(pre, vac), RetNone)
              ELSE IF GetDataResult(o) = NoneVal
                THEN FinishWith("TypeError", Append(pre, vac) \o rest, RetNone)
                ELSE FinishWith("returned", Append(pre, vac) \o rest,
                                RetDict(SensorData(withExt, e, v, p, o)))

(***************************************************************************)
(* The bit fields the word getters decode: the shift and mask applied to   *)
(* the word read, and the labels of _status, _warning, _pgva_error and     *)
(* _modbus_error for the field values 0, 1, ... in this order.             *)
(***************************************************************************)
\* get_status_word with the labels of _set_pgva_status.
StatusFields ==
    <<
    [name |-> "Status", shift |-> 0, mask |-> 1,
     labels |-> <<"Idle", "Busy">>],
    [name |-> "Pump", shift |-> 1, mask |-> 3,
     labels |-> <<"Pump is off", "Pump is building pressure", "Pump is building vacuum">>],
    [name |-> "Pressure", shift |-> 3, mask |-> 1,
     labels |-> <<"Pressure in the tank is nominal", "Pressure in the tank is below threshold">>],
    [name |-> "Vacuum", shift |-> 4, mask |-> 1,
     labels |-> <<"Vacuum in the tank is nominal", "Vacuum in the tank is below threshold">>],
    [name |-> "EEPROM", shift |-> 5, mask |-> 1,
     labels |-> <<"No EEPROM write pending", "EEPROM write pending">>],
    [name |-> "TargetPressure", shift |-> 6, mask |-> 1,
     labels |-> <<"Target pressure in progress", "Target pressure achieved">>],
    [name |-> "Trigger", shift |-> 7, mask |-> 1,
     labels |-> <<"Trigger is closed", "Trigger is open">>],
    [name |-> "OutputValveControl", shift |-> 10, mask |-> 1,
     labels |-> <<"Exhaust valve management disabled", "Exhaust valve management enabled">>],
    [name |-> "OutputValve", shift |-> 11, mask |-> 1,
     labels |-> <<"Exhaust valve closed", "Exhaust valve open">>]
    >>

\* get_warning_word with the labels of _set_pgva_warning.
WarningFields ==
    <<
    [name |-> "SupplyVoltage", shift |-> 0, mask |-> 1,
     labels |-> <<"Reset", "Abnormal supply voltage">>],
    [name |-> "VacuumThreshold", shift |-> 1, mask |-> 1,
     labels |-> <<"Reset", "Vacuum generator cannot reach threshold">>],
    [name |-> "PressureThreshold", shift |-> 2, mask |-> 1,
     labels |-> <<"Reset", "Pressure generator cannot reach threshold">>],
    [name |-> "TargetPressure", shift |-> 4, mask |-> 1,
     labels |-> <<"Reset", "Preset output pressure cannot be reached">>],
    [name |-> "VacuumChamber", shift |-> 5, mask |-> 1,
     labels |-> <<"Reset", "Vacuum chamber set below -500 mBar">>],
    [name |-> "Pump", shift |-> 7, mask |-> 1,
     labels |-> <<"Reset", "Pump ran for 9 minutes">>],
    [name |-> "ExternalSensor", shift |-> 9, mask |-> 1,
     labels |-> <<"Reset", "External Sensor Verification warning">>]
    >>

\* get_error_word with the labels of _set_pgva_error.
ErrorFields ==
    <<
    [name |-> "PumpTimeout", shift |-> 0, mask |-> 1,
     labels |-> <<"Reset", "Pump ran longer than 10 minutes">>],
    [name |-> "TimeoutPressure", shift |-> 1, mask |-> 1,
     labels |-> <<"Reset", "Target output pressure not achieved in 8 minutes">>],
    [name |-> "ModbusError", shift |-> 2, mask |-> 1,
     labels |-> <<"Reset", "Modbus error occurred, please read modbus error word">>],
    [name |-> "LowVoltage", shift |-> 3, mask |-> 1,
     labels |-> <<"Reset", "Power supply too low">>],
    [name |-> "HighVoltage", shift |-> 4, mask |-> 1,
     labels |-> <<"Reset", "Power supply too high">>],
    [name |-> "TimeoutExternalSensor", shift |-> 5, mask |-> 1,
     labels |-> <<"Reset", "External sensor check timed out">>]
    >>

\* get_modbus_error_word with the label of _set_modbus_error.
ModbusErrorFields ==
    <<
    [name |-> "OutputActuationTime", shift |-> 0, mask |-> 1,
     labels |-> <<"Reset", "Trigger time is outside of input range, The Modbus command was not executed">>]
    >>

\* (word >> shift) & mask
FieldValue(word, f) == (word \div Pow2(f.shift)) % (f.mask + 1)

\* A field value that is no key of the field's label dict: KeyError.
DecodeFails(fields, word) ==
    \E i \in DOMAIN fields : FieldValue(word, fields[i]) + 1 \notin DOMAIN fields[i].labels

\* The dict of flag name -> label the getter builds.
DecodeWord(fields, word) ==
    [n \in {fields[i].name : i \in DOMAIN fields} |->
        LET f == fields[CHOOSE i \in DOMAIN fields : fields[i].name = n]
        IN  f.labels[FieldValue(word, f) + 1]]

\* A word getter: one read of the register, then the decoding; None & 1
\* raises TypeError when the read gave None.
GetWord(name, register, fields) ==
    /\ pc = "idle"
    /\ op' = name
    /\ arg' = 0
    /\ UNCHANGED <<facade, version, fw>>
    /\ \E r \in WordReads \cup {Raised} :
        LET calls == <<ReadInputCall(register, r)>>
        IN  IF GetDataResult(r) = NoneVal
              THEN FinishWith("TypeError", calls, RetNone)
              ELSE IF DecodeFails(fields, r)
                THEN FinishWith("KeyError", calls, RetNone)
                ELSE FinishWith("returned", calls, RetDict(DecodeWord(fields, r)))

get_status_word == GetWord("get_status_word", "STATUS_WORD", StatusFields)

get_warning_word == GetWord("get_warning_word", "WARNING_WORD", WarningFields)

get_error_word == GetWord("get_error_word", "ERROR_WORD", ErrorFields)

get_modbus_error_word ==
    GetWord("get_modbus_error_word", "LAST_MODBUS_ERROR", ModbusErrorFields)

Next ==
    \/ \E p \in OutputPressureArgs : set_output_pressure(p)
    \/ \E t \in ActuationTimeArgs : set_actuation_time(t)
    \/ \E p \in PressureChamberArgs : set_pressure_chamber(p)
    \/ \E v \in VacuumChamberArgs : set_vacuum_chamber(v)
    \/ \E b \in {0, 1} : toggle_pump(b)
    \/ \E b \in {0, 1} : toggle_manual_trigger(b)
    \/ get_firmware_version
    \/ get_vacuum_chamber
    \/ get_pressure_chamber
    \/ get_output_pressure
    \/ get_internal_sensor_data
    \/ get_status_word
    \/ get_warning_word
    \/ get_error_word
    \/ get_modbus_error_word
    \/ PollStatus

Spec == Init /\ [][Next]_vars

(***************************************************************************)
(* Vocabulary of the properties.                                           *)
(***************************************************************************)
Writes(w) == {i \in DOMAIN w : w[i].call = "write_register"}

StatusReads(w) ==
    {i \in DOMAIN w : w[i].call = "read_input_registers" /\ w[i].reg = "STATUS_WORD"}

PumpRegisterCalls(w) == {i \in DOMAIN w : w[i].reg = "PUMP_ENABLE"}

\* A status word answered by the device with its busy bit clear.
SeenIdle(e) == e.resp # Raised /\ e.resp % 2 = 0

\* The 16-bit register values that encode the integers of lo..hi.
Encoded16(lo, hi) == {IF x < 0 THEN x + 65536 ELSE x : x \in lo..hi}

RangedSetters ==
    {"set_output_pressure", "set_actuation_time", "set_pressure_chamber",
     "set_vacuum_chamber"}

\* The accepted arguments of the ranged setters, as the specification gives them.
Accepted(o, a) ==
    CASE o = "set_output_pressure" -> a \in -450..450
      [] o = "set_actuation_time" -> a \in 5..65534
      [] o = "set_pressure_chamber" -> a \in 200..1000
      [] o = "set_vacuum_chamber" -> a \in -900..-200
      [] OTHER -> TRUE

\* No transport call of the operation raised.
NoTransportFailure(w) == \A i \in DOMAIN w : w[i].resp # Raised

\* An operation has completed: control is back at the caller.
Completed(o) == pc = "idle" /\ op = o

(***************************************************************************)
(* C1: if the busy bit never clears, a write stops polling within the      *)
(* configured timeout (here TimeoutPolls status polls) and fails with      *)
(* Timeout: no operation is still polling once TimeoutPolls polls have     *)
(* all read busy.                                                          *)
(***************************************************************************)
C1_PollingStopsWithinTimeout == pc = "poll" => polls < TimeoutPolls

(***************************************************************************)
(* C2: a set operation whose write_register went through returns to the    *)
(* caller as successful only after a status-word read with bit 0 clear.    *)
(***************************************************************************)
C2_ReturnsOnlyAfterIdleSeen ==
    (/\ pc = "idle"
     /\ result = "returned"
     /\ \E i \in Writes(wire) : wire[i].resp # Raised)
    => \E j \in StatusReads(wire) : SeenIdle(wire[j])

(***************************************************************************)
(* C3: every write_register to the output-pressure register carries the    *)
(* 16-bit encoding of a value in [-450, 450], every write to the valve     *)
(* actuation time register a value in [5, 65534], every write to the       *)
(* pressure threshold register the scaling of a value in [200, 1000] and   *)
(* every write to the vacuum threshold register the scaling of a value in  *)
(* [-900, -200].                                                           *)
(***************************************************************************)
C3_WritesWithinHardwareLimits ==
    \A i \in Writes(wire) :
        LET e == wire[i]
        IN  /\ e.reg = "OUTPUT_PRESSURE_MBAR" => e.val \in Encoded16(-450, 450)
            /\ e.reg = "VALVE_ACTUATION_TIME" => e.val \in 5..65534
            /\ e.reg = "PRESSURE_THRESHOLD" =>
                   \E p \in 200..1000 : e.val = PressureChamberToRaw(p)
            /\ e.reg = "VACUUM_THRESHOLD" =>
                   \E v \in -900..-200 : e.val = VacuumChamberToRaw(v)

\* A write of the largest accepted output pressure has been issued.
C3_Witness ==
    /\ op = "set_output_pressure" /\ arg = 450
    /\ \E i \in Writes(wire) : wire[i].reg = "OUTPUT_PRESSURE_MBAR" /\ wire[i].val = 450

(***************************************************************************)
(* C4: a call of set_output_pressure, set_actuation_time,                  *)
(* set_pressure_chamber or set_vacuum_chamber with an out-of-range         *)
(* argument performs no transport call at all.  Stated for the calls in    *)
(* which the transport does not fail.                                      *)
(***************************************************************************)
C4_NoTransportCallOnBadInput ==
    (op \in RangedSetters /\ ~Accepted(op, arg) /\ NoTransportFailure(wire))
    => wire = <<>>

C6_Firmware213BypassesPumpRegister ==
    (version = <<2, 1, 3>> /\ op \in {"toggle_pump", "set_output_pressure"})
    => /\ PumpRegisterCalls(wire) = {}
       /\ op = "set_output_pressure" =>
            IF arg \in -450..450
              THEN /\ wire # <<>>
                   /\ wire[1].call = "write_register"
                   /\ wire[1].reg = "OUTPUT_PRESSURE_MBAR"
              ELSE result = "ValueError"

\* A pressure has been written while the pump-enable register holds 0.
C6_Witness ==
    /\ version = <<2, 1, 3>>
    /\ pumpReg = 0
    /\ op = "set_output_pressure"
    /\ Writes(wire) # {}

(***************************************************************************)
(* C7: for a setter call that passes validation and whose first status     *)
(* poll reads idle, the wire shows exactly one write_register, at the      *)
(* target register and carrying the encoded value (raw 200 for             *)
(* set_output_pressure(200)), followed by exactly one status-word read,    *)
(* and the call succeeds.                                                  *)
(***************************************************************************)
Setters == RangedSetters \cup {"toggle_pump"}

TargetRegister(o) ==
    CASE o = "set_output_pressure" -> "OUTPUT_PRESSURE_MBAR"
      [] o = "set_actuation_time" -> "VALVE_ACTUATION_TIME"
      [] o = "set_pressure_chamber" -> "PRESSURE_THRESHOLD"
      [] o = "set_vacuum_chamber" -> "VACUUM_THRESHOLD"
      [] o = "toggle_pump" -> "PUMP_ENABLE"

ExpectedRaw(o, a) ==
    CASE o = "set_output_pressure" -> IF a < 0 THEN a + 65536 ELSE a
      [] o = "set_actuation_time" -> a
      [] o = "set_pressure_chamber" -> PressureChamberToRaw(a)
      [] o = "set_vacuum_chamber" -> VacuumChamberToRaw(a)
      [] o = "toggle_pump" -> a

FirstStatusRead(w) == CHOOSE k \in StatusReads(w) : \A j \in StatusReads(w) : k <= j

C7_IdleDeviceOneWriteOnePoll ==
    (/\ pc = "idle"
     /\ op \in Setters
     /\ StatusReads(wire) # {}
     /\ SeenIdle(wire[FirstStatusRead(wire)]))
    => LET k == FirstStatusRead(wire)
       IN  /\ Writes(wire) = {k - 1}
           /\ wire[k - 1].reg = TargetRegister(op)
           /\ wire[k - 1].val = ExpectedRaw(op, arg)
           /\ StatusReads(wire) = {k}
           /\ k = Len(wire)
           /\ result = "returned"
           /\ (op = "set_output_pressure" /\ arg = 200) => wire[k - 1].val = 200

\* The end-to-end scenario: firmware [2,0,45], pump enabled, device idle.
C7_Witness ==
    /\ Completed("set_output_pressure")
    /\ arg = 200
    /\ version = <<2, 0, 45>>
    /\ result = "returned"
    /\ wire = <<ReadHoldingCall("PUMP_ENABLE", 1),
                WriteCall("OUTPUT_PRESSURE_MBAR", 200, 0),
                ReadInputCall("STATUS_WORD", 0)>>

(***************************************************************************)
(* C8: set_output_pressure(p) fails with ValueError for every p outside    *)
(* [-450, 450], in every pump-enable and firmware state, and does not      *)
(* raise for any p inside it.  Stated for the calls in which the           *)
(* transport does not fail.                                                *)
(***************************************************************************)
C8_OutputPressureAcceptsExactlyRange ==
    (Completed("set_output_pressure") /\ NoTransportFailure(wire))
    => (result = "ValueError" <=> arg \notin -450..450)

C12_ManualTriggerAlwaysFails ==
    op = "toggle_manual_trigger" =>
        /\ pc = "idle"
        /\ result = "NotImplementedError"
        /\ wire = <<>>

\* toggle_manual_trigger(True) has failed on a client of firmware [2,0,45].
C12_Witness ==
    /\ Completed("toggle_manual_trigger")
    /\ arg = 1
    /\ version = <<2, 0, 45>>
    /\ result = "NotImplementedError"

(***************************************************************************)
(* C13: when the transport fails during write_register or during a status  *)
(* poll inside a set operation, the failure is surfaced to the caller: the *)
(* setter does not return as if the write had succeeded.                   *)
(***************************************************************************)
C13_TransportFailureSurfaced ==
    (/\ pc = "idle"
     /\ op \in Setters
     /\ \E i \in Writes(wire) \cup StatusReads(wire) : wire[i].resp = Raised)
    => result # "returned"

(***************************************************************************)
(* C14: when the transport fails during the register read, each of         *)
(* get_pressure_chamber, get_vacuum_chamber, get_output_pressure,          *)
(* get_status_word, get_warning_word, get_error_word and                   *)
(* get_modbus_error_word gives the caller None or a CommunicationError.    *)
(***************************************************************************)
ReadGetters ==
    {"get_pressure_chamber", "get_vacuum_chamber", "get_output_pressure",
     "get_status_word", "get_warning_word", "get_error_word",
     "get_modbus_error_word"}

C14_FailedReadGivesNoneOrCommunicationError ==
    (/\ pc = "idle"
     /\ op \in ReadGetters
     /\ \E i \in DOMAIN wire : wire[i].resp = Raised)
    => \/ result = "returned" /\ ret = RetNone
       \/ result = "CommunicationError"

(***************************************************************************)
(* C16: get_firmware_version reads the three firmware registers only once: *)
(* a call after construction issues no register read (and so returns the   *)
(* triple cached at construction).  Stated for the calls in which the      *)
(* transport does not fail.                                                *)
(***************************************************************************)
C16_FirmwareVersionReadOnce ==
    (Completed("get_firmware_version") /\ NoTransportFailure(wire)) => wire = <<>>

(***************************************************************************)
(* C17: get_vacuum_chamber returns the signed 16-bit two's-complement      *)
(* reading of the raw register: raw when raw <= 32767, raw - 65536         *)
(* otherwise.                                                              *)
(***************************************************************************)
C17_VacuumChamberSigned16 ==
    (Completed("get_vacuum_chamber") /\ wire[1].resp # Raised)
    => /\ result = "returned"
       /\ ret = RetInt(IF wire[1].resp <= 32767
                         THEN wire[1].resp
                         ELSE wire[1].resp - 65536)

(***************************************************************************)
(* C18: get_internal_sensor_data reads the external sensor exactly when    *)
(* the cached firmware differs from [2,1,3]; it returns unless the vacuum  *)
(* or output pressure getter raises, and what it returns holds             *)
(* VacuumChamber, PressureChamber and OutputPressure, each as the          *)
(* corresponding getter gives it for the answer on the wire, and Extsensor *)
(* exactly when the cached firmware differs from [2,1,3].                  *)
(***************************************************************************)
ReadsOf(w, register) == {i \in DOMAIN w : w[i].reg = register}

\* The answer the operation got from its one read of the register.
AnswerOf(w, register) == w[CHOOSE i \in ReadsOf(w, register) : TRUE].resp

C18_InternalSensorData ==
    Completed("get_internal_sensor_data") =>
        /\ Cardinality(ReadsOf(wire, "EXTERNAL_SENSOR_VALUE"))
             = (IF version # <<2, 1, 3>> THEN 1 ELSE 0)
        /\ Writes(wire) = {}
        /\ result = "returned" <=>
             /\ ReadsOf(wire, "VACUUM_ACTUAL_MBAR") # {}
             /\ AnswerOf(wire, "VACUUM_ACTUAL_MBAR") # Raised
             /\ ReadsOf(wire, "OUTPUT_PRESSURE_ACTUAL_MBAR") # {}
             /\ AnswerOf(wire, "OUTPUT_PRESSURE_ACTUAL_MBAR") # Raised
        /\ result = "returned" =>
             /\ ret.kind = "dict"
             /\ DOMAIN ret.entries =
                  {"VacuumChamber", "PressureChamber", "OutputPressure"}
                    \cup (IF version # <<2, 1, 3>> THEN {"Extsensor"} ELSE {})
             /\ ret.entries["VacuumChamber"]
                  = RetInt(VacuumDecode(AnswerOf(wire, "VACUUM_ACTUAL_MBAR")))
             /\ ret.entries["PressureChamber"]
                  = RetOf(GetDataResult(AnswerOf(wire, "PRESSURE_ACTUAL_MBAR")))
             /\ ret.entries["OutputPressure"]
                  = RetInt(OutputPressureDecode(
                             AnswerOf(wire, "OUTPUT_PRESSURE_ACTUAL_MBAR")))
             /\ version # <<2, 1, 3>> =>
                  ret.entries["Extsensor"]
                    = RetOf(GetDataResult(AnswerOf(wire, "EXTERNAL_SENSOR_VALUE")))

\* The four readings have been returned on firmware [2,0,45].
C18_Witness ==
    /\ Completed("get_internal_sensor_data")
    /\ version = <<2, 0, 45>>
    /\ result = "returned"
    /\ ret.kind = "dict"
    /\ ret.entries = [k \in {"Extsensor", "VacuumChamber", "PressureChamber", "OutputPressure"}
                    |-> CASE k = "Extsensor" -> RetInt(7)
                          [] k = "VacuumChamber" -> RetInt(-450)
                          [] k = "PressureChamber" -> RetInt(500)
                          [] k = "OutputPressure" -> RetInt(200)]

(***************************************************************************)
(* The conversions on their own: ConvSpec draws an input and applies       *)
(* _convert_twos_comp to it, or the sign encoding of _set_data followed by *)
(* _convert_twos_comp at 16 bits, or what set_output_pressure puts into    *)
(* the register followed by what get_output_pressure makes of that same    *)
(* register value.  arg holds the input <<val, bits>> or <<pressure>>.     *)
(***************************************************************************)
RawsFor(bits) ==
    IF bits <= FullBits
      THEN 0..(Pow2(bits) - 1)
      ELSE (Window(0) \cup Window(Pow2(bits - 1)) \cup Window(Pow2(bits) - 1))
             \cap (0..(Pow2(bits) - 1))

ConvInputs == UNION {{<<raw, bits>> : raw \in RawsFor(bits)} : bits \in 1..16}

SignedInputs ==
    (Window(-32768) \cup Window(-450) \cup Window(0) \cup Window(450) \cup Window(32767))
        \cap (-32768..32767)

\* The pressures handed to set_output_pressure: the accepted range and the
\* values next to it.
RoundTripInputs ==
    (MINIMUM_OUTPUT_PRESSURE_MBAR - Margin)..(MAXIMUM_OUTPUT_PRESSURE_MBAR + Margin)

ConvInit ==
    /\ fw = <<2, 0, 45>>
    /\ version = fw
    /\ pumpReg = 0
    /\ pc = "input"
    /\ \/ op = "_convert_twos_comp" /\ arg \in ConvInputs
       \/ op = "encode_decode" /\ arg \in {<<v, 16>> : v \in SignedInputs}
       \/ op = "output_round_trip" /\ arg \in {<<p>> : p \in RoundTripInputs}
    /\ result = "none"
    /\ wire = <<>>
    /\ polls = 0
    /\ ret = RetNone
    /\ FacadeOverTCP

ApplyConvertTwosComp ==
    /\ pc = "input"
    /\ op = "_convert_twos_comp"
    /\ pc' = "idle"
    /\ result' = "returned"
    /\ ret' = RetInt(ConvertTwosComp(arg[1], arg[2]))
    /\ UNCHANGED <<facade, version, fw, pumpReg, op, arg, wire, polls>>

ApplyEncodeDecode ==
    /\ pc = "input"
    /\ op = "encode_decode"
    /\ pc' = "idle"
    /\ result' = "returned"
    /\ ret' = RetInt(ConvertTwosComp(EncodeSigned(arg[1]), arg[2]))
    /\ UNCHANGED <<facade, version, fw, pumpReg, op, arg, wire, polls>>

\* set_output_pressure(arg[1]) on an enabled pump, the value written reported
\* back by the device in OUTPUT_PRESSURE_ACTUAL_MBAR, then get_output_pressure.
ApplyOutputRoundTrip ==
    /\ pc = "input"
    /\ op = "output_round_trip"
    /\ pc' = "idle"
    /\ IF OutputPressureInRange(arg[1])
         THEN /\ result' = "returned"
              /\ ret' = RetInt(OutputPressureDecode(EncodeSigned(arg[1])))
         ELSE /\ result' = "ValueError"
              /\ ret' = RetNone
    /\ UNCHANGED <<facade, version, fw, pumpReg, op, arg, wire, polls>>

ConvNext == ApplyConvertTwosComp \/ ApplyEncodeDecode \/ ApplyOutputRoundTrip

ConvSpec == ConvInit /\ [][ConvNext]_vars

(***************************************************************************)
(* Two callers on one client: ConcSpec.  Nothing in the client keeps two   *)
(* calls apart, so the callers interleave at every transport call: a call  *)
(* is validated (CallSetter), issues its write_register (IssueWrite) and   *)
(* polls the status word (PollAs).  pc, op, arg and result are per caller, *)
(* wire is the one wire of the client, each call tagged with its caller.   *)
(***************************************************************************)
Callers == {1, 2}

ConcCalls ==
    {[name |-> "set_actuation_time", arg |-> 5],
     [name |-> "set_vacuum_chamber", arg |-> -200]}

\* The value handed to _set_data by the setter.
ConcValue(o, a) ==
    CASE o = "set_pressure_chamber" -> PressureChamberToRaw(a)
      [] o = "set_vacuum_chamber" -> VacuumChamberToRaw(a)
      [] OTHER -> a

Tagged(e, c) ==
    [call |-> e.call, reg |-> e.reg, val |-> e.val, resp |-> e.resp, by |-> c]

ConcInit ==
    /\ fw = <<2, 0, 45>>
    /\ version = fw
    /\ pumpReg = 1
    /\ pc = [c \in Callers |-> "idle"]
    /\ op = [c \in Callers |-> "none"]
    /\ arg = [c \in Callers |-> 0]
    /\ result = [c \in Callers |-> "none"]
    /\ wire = <<>>
    /\ polls = 0
    /\ ret = RetNone
    /\ FacadeOverTCP

\* The setter is entered with an accepted argument and reaches _set_data.
CallSetter(c) ==
    /\ pc[c] = "idle"
    /\ \E k \in ConcCalls :
        /\ op' = [op EXCEPT ![c] = k.name]
        /\ arg' = [arg EXCEPT ![c] = k.arg]
    /\ pc' = [pc EXCEPT ![c] = "write"]
    /\ result' = [result EXCEPT ![c] = "running"]
    /\ UNCHANGED <<facade, version, fw, pumpReg, wire, polls, ret>>

\* self.client.write_register(...) of _set_data.
IssueWrite(c) ==
    /\ pc[c] = "write"
    /\ Len(wire) < MaxConcWire
    /\ \E wr \in {0, Raised} :
        /\ wire' = Append(wire,
                     Tagged(WriteCall(TargetRegister(op[c]),
                                      EncodeSigned(ConcValue(op[c], arg[c])), wr), c))
        /\ IF wr = Raised
             THEN /\ pc' = [pc EXCEPT ![c] = "idle"]
                  /\ result' = [result EXCEPT ![c] = "returned"]
             ELSE /\ pc' = [pc EXCEPT ![c] = "poll"]
                  /\ UNCHANGED result
    /\ UNCHANGED <<facade, version, fw, pumpReg, op, arg, polls, ret>>

\* One read of the status word by _set_data, before or in its while loop.
PollAs(c) ==
    /\ pc[c] = "poll"
    /\ Len(wire) < MaxConcWire
    /\ \E st \in StatusWords \cup {Raised} :
        /\ wire' = Append(wire, Tagged(ReadInputCall("STATUS_WORD", st), c))
        /\ IF st # Raised /\ Busy(st)
             THEN UNCHANGED <<pc, result>>
             ELSE /\ pc' = [pc EXCEPT ![c] = "idle"]
                  /\ result' = [result EXCEPT ![c] = "returned"]
    /\ UNCHANGED <<facade, version, fw, pumpReg, op, arg, polls, ret>>

ConcNext == \E c \in Callers : CallSetter(c) \/ IssueWrite(c) \/ PollAs(c)

ConcSpec == ConcInit /\ [][ConcNext]_vars

(***************************************************************************)
(* C15: when two callers invoke set operations concurrently on one client, *)
(* no second write_register appears on the wire between a first            *)
(* write_register and the end of that first operation (the status read     *)
(* that ends its poll, or the failure of its write).                       *)
(***************************************************************************)
\* The transport call that ends the set operation of its caller.
EndsOperation(e) ==
    \/ e.call = "write_register" /\ e.resp = Raised
    \/ e.call = "read_input_registers" /\ (e.resp = Raised \/ e.resp % 2 = 0)

C15_WritesSerialized ==
    \A i \in Writes(wire), j \in Writes(wire) :
        (i < j /\ wire[i].by # wire[j].by)
        => \E k \in i..(j - 1) : wire[k].by = wire[i].by /\ EndsOperation(wire[k])

(***************************************************************************)
(* C19: for every bit width bits in 1..16 and every raw in [0, 2^bits),    *)
(* _convert_twos_comp(raw, bits) is raw when bit (bits-1) of raw is clear  *)
(* (raw < 2^(bits-1)) and raw - 2^bits when it is set.                     *)
(***************************************************************************)
C19_ConvertTwosComp ==
    (pc = "idle" /\ op = "_convert_twos_comp")
    => ret = RetInt(IF arg[1] < Pow2(arg[2] - 1)
                      THEN arg[1]
                      ELSE arg[1] - Pow2(arg[2]))

\* bits = 8, raw = 200 has given -56.
C19_Witness ==
    /\ pc = "idle"
    /\ op = "_convert_twos_comp"
    /\ arg = <<200, 8>>
    /\ ret = RetInt(-56)

(***************************************************************************)
(* C20: the sign encoding applied on write followed by the 16-bit two's    *)
(* complement decoding is the identity on [-32768, 32767].                 *)
(***************************************************************************)
C20_EncodeDecodeIdentity ==
    (pc = "idle" /\ op = "encode_decode") => ret = RetInt(arg[1])

\* -32768 has come back from its encoding 32768.
C20_Witness ==
    /\ pc = "idle"
    /\ op = "encode_decode"
    /\ arg = <<-32768, 16>>
    /\ EncodeSigned(arg[1]) = 32768
    /\ ret = RetInt(-32768)

(***************************************************************************)
(* C23: for every accepted pressure p in [200, 1000] set_pressure_chamber  *)
(* writes round(p * (1/0.5543)), the scaled value rounded to the nearest   *)
(* integer, to the pressure threshold register; for every accepted vacuum  *)
(* v in [-900, -200] set_vacuum_chamber writes round(v * (1/-0.277)) to    *)
(* the vacuum threshold register.                                          *)
(***************************************************************************)
\* p / 0.5543 to the nearest integer; no p of the range lies on a half.
RoundedPressure(p) == (2 * p * 10000 + 5543) \div (2 * 5543)

\* v / -0.277 to the nearest integer; no v of the range lies on a half.
RoundedVacuum(v) == (2 * (-v) * 1000 + 277) \div (2 * 277)

C23_ChamberWritesRounded ==
    /\ (op = "set_pressure_chamber" /\ arg \in 200..1000)
       => \A i \in Writes(wire) :
            wire[i].reg = "PRESSURE_THRESHOLD" /\ wire[i].val = RoundedPressure(arg)
    /\ (op = "set_vacuum_chamber" /\ arg \in -900..-200)
       => \A i \in Writes(wire) :
            wire[i].reg = "VACUUM_THRESHOLD" /\ wire[i].val = RoundedVacuum(arg)

(***************************************************************************)
(* C24: get_output_pressure returns the raw register value unchanged when  *)
(* raw <= 500, and when raw > 500 it returns raw - 2^k, k being the bit    *)
(* length of raw itself (2^(k-1) <= raw < 2^k) and not the fixed width 16. *)
(***************************************************************************)
C24_OutputPressureValueDependentWidth ==
    (Completed("get_output_pressure") /\ wire[1].resp # Raised)
    => LET raw == wire[1].resp
       IN  /\ result = "returned"
           /\ IF raw <= 500
                THEN ret = RetInt(raw)
                ELSE \E k \in 1..16 :
                       /\ Pow2(k - 1) <= raw
                       /\ raw < Pow2(k)
                       /\ ret = RetInt(raw - Pow2(k))

\* Raw 501, of bit length 9, has been returned as 501 - 512.
C24_Witness ==
    /\ Completed("get_output_pressure")
    /\ wire = <<ReadInputCall("OUTPUT_PRESSURE_ACTUAL_MBAR", 501)>>
    /\ ret = RetInt(-11)

(***************************************************************************)
(* C25: for every value of the status register get_status_word returns a   *)
(* mapping with exactly the nine flags Status, Pump, Pressure, Vacuum,      *)
(* EEPROM, TargetPressure, Trigger, OutputValveControl and OutputValve,     *)
(* each mapped to a label of its static table; it fails only when the      *)
(* transport read fails.                                                   *)
(***************************************************************************)
StatusFlags ==
    {"Status", "Pump", "Pressure", "Vacuum", "EEPROM", "TargetPressure",
     "Trigger", "OutputValveControl", "OutputValve"}

\* The labels the static status table holds for a flag.
StatusLabels(flag) ==
    UNION {{StatusFields[i].labels[j] : j \in DOMAIN StatusFields[i].labels} :
             i \in {k \in DOMAIN StatusFields : StatusFields[k].name = flag}}

C25_StatusWordAlwaysDecodes ==
    (Completed("get_status_word") /\ NoTransportFailure(wire))
    => /\ result = "returned"
       /\ ret.kind = "dict"
       /\ DOMAIN ret.entries = StatusFlags
       /\ \A flag \in StatusFlags : ret.entries[flag] \in StatusLabels(flag)

(***************************************************************************)
(* C26: with firmware different from [2,1,3] and a device that stores what *)
(* is written to its pump-enable register, toggle_pump(True) writes 1 to   *)
(* that register and toggle_pump(False) writes 0, once, and the call polls *)
(* until the status word reads idle; the register changes in no other      *)
(* step; and an in-range set_output_pressure writes the output pressure    *)
(* register when the register holds 1 (the last toggle was True) and       *)
(* writes nothing when it holds 0 (the last toggle was False).  Stated for *)
(* the calls in which the transport does not fail.                         *)
(***************************************************************************)
C26_PumpToggleGatesOutputPressure ==
    [][/\ (pc = "idle" /\ op' = "toggle_pump" /\ version # <<2, 1, 3>>)
          => /\ Writes(wire') = {1}
             /\ wire'[1].reg = "PUMP_ENABLE"
             /\ wire'[1].val = arg'
             /\ wire'[1].resp # Raised => pumpReg' = arg'
       /\ (/\ op' = "toggle_pump"
           /\ version # <<2, 1, 3>>
           /\ pc' = "idle"
           /\ NoTransportFailure(wire'))
          => SeenIdle(wire'[Len(wire')])
       /\ pumpReg' # pumpReg => (pc = "idle" /\ op' = "toggle_pump")
       /\ (/\ pc = "idle"
           /\ op' = "set_output_pressure"
           /\ version # <<2, 1, 3>>
           /\ arg' \in -450..450
           /\ NoTransportFailure(wire'))
          => IF pumpReg = 1
               THEN /\ Cardinality(Writes(wire')) = 1
                    /\ \A i \in Writes(wire') : wire'[i].reg = "OUTPUT_PRESSURE_MBAR"
               ELSE Writes(wire') = {}
      ]_vars

\* toggle_pump(True) has written 1, polled past a busy status word and returned.
C26_Witness ==
    /\ Completed("toggle_pump")
    /\ arg = 1
    /\ version = <<2, 0, 45>>
    /\ pumpReg = 1
    /\ wire = <<WriteCall("PUMP_ENABLE", 1, 0),
                ReadInputCall("STATUS_WORD", 1),
                ReadInputCall("STATUS_WORD", 0)>>

(***************************************************************************)
(* C27: each call of a set or toggle operation issues at most one          *)
(* write_register, and no get operation (sensor reads, status, warning,    *)
(* error and modbus-error words, firmware version) issues a write_register *)
(* or changes a device register.                                           *)
(***************************************************************************)
Getters == ReadGetters \cup {"get_internal_sensor_data", "get_firmware_version"}

C27_OneWritePerSetNoneForGet ==
    [][/\ op' \in Setters \cup {"toggle_manual_trigger"}
          => Cardinality(Writes(wire')) <= 1
       /\ op' \in Getters
          => /\ Writes(wire') = {}
             /\ pumpReg' = pumpReg
             /\ fw' = fw
      ]_vars

\* The four sensor registers have been read on a device whose pump is enabled.
C27_Witness ==
    /\ Completed("get_internal_sensor_data")
    /\ Len(wire) = 4
    /\ Writes(wire) = {}
    /\ pumpReg = 1

(***************************************************************************)
(* C28: if the read of the pump-enable holding register fails in the       *)
(* transport during set_output_pressure (firmware different from [2,1,3]), *)
(* the pump is treated as not enabled: no write_register is issued, for    *)
(* any argument.                                                           *)
(***************************************************************************)
C28_FailedPumpReadNeverWrites ==
    (/\ op = "set_output_pressure"
     /\ wire # <<>>
     /\ wire[1] = ReadHoldingCall("PUMP_ENABLE", Raised))
    => /\ Writes(wire) = {}
       /\ Len(wire) = 1
       /\ pc = "idle"

\* The read has failed on a device whose pump is enabled, for an in-range pressure.
C28_Witness ==
    /\ Completed("set_output_pressure")
    /\ arg = 200
    /\ version = <<2, 0, 45>>
    /\ pumpReg = 1
    /\ wire = <<ReadHoldingCall("PUMP_ENABLE", Raised)>>
    /\ result = "returned"

(***************************************************************************)
(* C29: write/read round trip of the output pressure: for every p in       *)
(* [-450, 450], if the device reports in its actual-output-pressure        *)
(* register the 16-bit value that set_output_pressure(p) wrote, then       *)
(* get_output_pressure returns p.                                          *)
(***************************************************************************)
C29_OutputPressureRoundTrip ==
    (pc = "idle" /\ op = "output_round_trip" /\ arg[1] \in -450..450)
    => /\ result = "returned"
       /\ ret = RetInt(arg[1])

\* -450 has come back from the register value 65086.
C29_Witness ==
    /\ pc = "idle"
    /\ op = "output_round_trip"
    /\ arg = <<-450>>
    /\ EncodeSigned(arg[1]) = 65086
    /\ ret = RetInt(-450)

(***************************************************************************)
(* The PGVA facade, src/src/pgva/pgva.py: FacadeSpec.  The constructor is  *)
(* called once with a configuration object (Construct); on a facade whose  *)
(* constructor returned, the public methods are called in any order        *)
(* (Forward).  config and backend are the facade's _config and _backend,   *)
(* backendCalls the backend constructions and method calls of the last     *)
(* operation, arg the argument object of the last operation.  The backend  *)
(* is taken by its answers only: each method returns or raises as the      *)
(* client operation of that name can.                                      *)
(***************************************************************************)
\* isinstance(config, PGVAConfig): the base class and its two subclasses.
IsPGVAConfig(cfg) == cfg.class \in {"PGVAConfig", "PGVATCPConfig", "PGVASerialConfig"}

\* Argument objects of the public methods.
IntArg(n) == [class |-> "int", value |-> n]

BoolArg(b) == [class |-> "bool", value |-> b]

NoArg == [class |-> "NoneType"]

\* An answer of a backend method: how it ended and what it returned.
Answer(outcome, value) == [result |-> outcome, ret |-> value]

\* The answers of the methods that return None, of the one that always
\* raises, and of the getters.
SetterAnswers == {Answer("returned", RetNone), Answer("ValueError", RetNone)}

TriggerAnswers == {Answer("NotImplementedError", RetNone)}

IntGetterAnswers == {Answer("returned", RetInt(200)), Answer("TypeError", RetNone)}

PressureGetterAnswers == {Answer("returned", RetInt(500)), Answer("returned", RetNone)}

SensorDataAnswers ==
    {Answer("returned", RetDict(SensorData(TRUE, 7, 0, 500, 200))),
     Answer("TypeError", RetNone)}

WordAnswers(fields) ==
    {Answer("returned", RetDict(DecodeWord(fields, 0))), Answer("TypeError", RetNone)}

PrintAnswers == {Answer("returned", RetNone), Answer("TypeError", RetNone)}

\* The public methods of PGVA: the backend method each one calls, whether it
\* returns what that call returned, the arguments tried and the answers of
\* the backend.
FacadeMethods ==
    {[name |-> "set_output_pressure", calls |-> "set_output_pressure", returns |-> FALSE,
      args |-> {IntArg(p) : p \in {-450, 0, 200, 451}}, answers |-> SetterAnswers],
     [name |-> "trigger_actuation_valve", calls |-> "set_actuation_time", returns |-> FALSE,
      args |-> {IntArg(t) : t \in {5, 1000, 65535}}, answers |-> SetterAnswers],
     [name |-> "set_pressure_chamber", calls |-> "set_pressure_chamber", returns |-> FALSE,
      args |-> {IntArg(p) : p \in {200, 1000}}, answers |-> SetterAnswers],
     [name |-> "set_vacuum_chamber", calls |-> "set_vacuum_chamber", returns |-> FALSE,
      args |-> {IntArg(v) : v \in {-900, -200}}, answers |-> SetterAnswers],
     [name |-> "get_pressure_chamber", calls |-> "get_pressure_chamber", returns |-> TRUE,
      args |-> {NoArg}, answers |-> PressureGetterAnswers],
     [name |-> "get_vacuum_chamber", calls |-> "get_vacuum_chamber", returns |-> TRUE,
      args |-> {NoArg}, answers |-> IntGetterAnswers],
     [name |-> "get_output_pressure", calls |-> "get_output_pressure", returns |-> TRUE,
      args |-> {NoArg}, answers |-> IntGetterAnswers],
     [name |-> "get_internal_sensor_data", calls |-> "get_internal_sensor_data",
      returns |-> TRUE, args |-> {NoArg}, answers |-> SensorDataAnswers],
     [name |-> "toggle_pump", calls |-> "toggle_pump", returns |-> FALSE,
      args |-> {BoolArg(TRUE), BoolArg(FALSE)}, answers |-> {Answer("returned", RetNone)}],
     [name |-> "get_status_word", calls |-> "get_status_word", returns |-> TRUE,
      args |-> {NoArg}, answers |-> WordAnswers(StatusFields)],
     [name |-> "get_warning_word", calls |-> "get_warning_word", returns |-> TRUE,
      args |-> {NoArg}, answers |-> WordAnswers(WarningFields)],
     [name |-> "get_error_word", calls |-> "get_error_word", returns |-> TRUE,
      args |-> {NoArg}, answers |-> WordAnswers(ErrorFields)],
     [name |-> "get_modbus_error_word", calls |-> "get_modbus_error_word", returns |-> TRUE,
      args |-> {NoArg}, answers |-> WordAnswers(ModbusErrorFields)],
     [name |-> "toggle_trigger", calls |-> "toggle_manual_trigger", returns |-> FALSE,
      args |-> {BoolArg(TRUE), BoolArg(FALSE)}, answers |-> TriggerAnswers],
     [name |-> "print_driver_information", calls |-> "print_driver_information",
      returns |-> FALSE, args |-> {NoArg}, answers |-> PrintAnswers]}

\* A call made on the backend class or on the backend.
BackendCall(method, a, answer) == [call |-> method, arg |-> a, resp |-> answer]

\* A constructor whose serial case goes on to build the serial backend.
ConstructOutcome_SerialBackend(cfg) ==
    IF IsPGVAConfig(cfg)
      THEN CASE cfg.class = "PGVASerialConfig" ->
                  [config |-> cfg, backend |-> SerialBackend(cfg), result |-> "returned",
                   calls |-> <<BackendCall("PGVAModbusSerial", cfg, Answer("returned", RetNone))>>]
             [] cfg.class = "PGVATCPConfig" ->
                  [config |-> cfg, backend |-> TCPBackend(cfg), result |-> "returned",
                   calls |-> <<BackendCall("PGVAModbusTCP", cfg, Answer("returned", RetNone))>>]
             [] OTHER ->
                  [config |-> cfg, backend |-> Unset, result |-> "returned", calls |-> <<>>]
      ELSE [config |-> Unset, backend |-> Unset, result |-> "TypeError", calls |-> <<>>]

\* PGVA.__init__(config): the attributes it leaves, the backend constructions
\* it makes and how it ends.  A PGVAConfig that matches neither case of the
\* match statement falls through it.
ConstructOutcome(cfg) ==
    IF IsPGVAConfig(cfg)
      THEN CASE cfg.class = "PGVASerialConfig" ->
                  [config |-> cfg, backend |-> Unset, result |-> "NotImplementedError",
                   calls |-> <<>>]
             [] cfg.class = "PGVATCPConfig" ->
                  [config |-> cfg, backend |-> TCPBackend(cfg), result |-> "returned",
                   calls |-> <<BackendCall("PGVAModbusTCP", cfg, Answer("returned", RetNone))>>]
             [] OTHER ->
                  [config |-> cfg, backend |-> Unset, result |-> "returned", calls |-> <<>>]
      ELSE [config |-> Unset, backend |-> Unset, result |-> "TypeError", calls |-> <<>>]

FacadeInit ==
    /\ fw = <<2, 0, 45>>
    /\ version = fw
    /\ pumpReg = 0
    /\ pc = "new"
    /\ op = "none"
    /\ arg = NoArg
    /\ result = "none"
    /\ wire = <<>>
    /\ polls = 0
    /\ ret = RetNone
    /\ config = Unset
    /\ backend = Unset
    /\ backendCalls = <<>>

Construct(cfg) ==
    /\ pc = "new"
    /\ op' = "PGVA"
    /\ arg' = cfg
    /\ LET o == ConstructOutcome(cfg)
       IN  /\ config' = o.config
           /\ backend' = o.backend
           /\ backendCalls' = o.calls
           /\ result' = o.result
           /\ pc' = IF o.result = "returned" THEN "ready" ELSE "failed"
    /\ ret' = RetNone
    /\ UNCHANGED <<version, fw, pumpReg, wire, polls>>

\* A public method: self._backend.<method>(argument); reading _backend on a
\* facade that never assigned it raises AttributeError.
Forward(m, a) ==
    /\ pc = "ready"
    /\ op' = m.name
    /\ arg' = a
    /\ IF backend = Unset
         THEN /\ backendCalls' = <<>>
              /\ result' = "AttributeError"
              /\ ret' = RetNone
         ELSE \E answer \in m.answers :
              /\ backendCalls' = <<BackendCall(m.calls, a, answer)>>
              /\ result' = answer.result
              /\ ret' = IF m.returns /\ answer.result = "returned"
                          THEN answer.ret
                          ELSE RetNone
    /\ UNCHANGED <<config, backend, pc, version, fw, pumpReg, wire, polls>>

FacadeNext ==
    \/ \E cfg \in TCPConfigs \cup SerialConfigs \cup PlainConfigs \cup OtherObjects :
         Construct(cfg)
    \/ \E m \in FacadeMethods : \E a \in m.args : Forward(m, a)

FacadeSpec == FacadeInit /\ [][FacadeNext]_vars

(***************************************************************************)
(* C21: constructing the facade dispatches on the configuration variant: a *)
(* PGVASerialConfig fails with NotImplementedError without constructing    *)
(* any backend, a value that is not a PGVAConfig fails with TypeError, and *)
(* a PGVATCPConfig constructs exactly one PGVAModbusTCP backend with that  *)
(* same config and keeps the config on the instance.                       *)
(***************************************************************************)
C21_ConstructorDispatch ==
    op = "PGVA" =>
        CASE arg.class = "PGVASerialConfig" ->
               /\ result = "NotImplementedError"
               /\ backendCalls = <<>>
               /\ backend = Unset
          [] arg.class = "PGVATCPConfig" ->
               /\ result = "returned"
               /\ Len(backendCalls) = 1
               /\ backendCalls[1].call = "PGVAModbusTCP"
               /\ backendCalls[1].arg = arg
               /\ backend = [class |-> "PGVAModbusTCP", config |-> arg]
               /\ config = arg
          [] arg.class \notin {"PGVASerialConfig", "PGVATCPConfig", "PGVAConfig"} ->
               /\ result = "TypeError"
               /\ backendCalls = <<>>
          [] OTHER -> TRUE

\* A facade has been built from the configuration of the second device.
C21_Witness ==
    /\ op = "PGVA"
    /\ pc = "ready"
    /\ arg = [class |-> "PGVATCPConfig", interface |-> "tcp/ip", ip |-> "192.168.0.2"]
    /\ backend = TCPBackend(arg)
    /\ config = arg

(***************************************************************************)
(* C22: every public method of a facade whose constructor returned calls   *)
(* exactly one backend method exactly once with the same argument          *)
(* (trigger_actuation_valve -> set_actuation_time, toggle_trigger ->       *)
(* toggle_manual_trigger, the others same-named), ends as that call ended, *)
(* and returns the backend's result for getters and None for setters.      *)
(***************************************************************************)
BackendMethodOf(name) ==
    CASE name = "trigger_actuation_valve" -> "set_actuation_time"
      [] name = "toggle_trigger" -> "toggle_manual_trigger"
      [] OTHER -> name

FacadeGetters ==
    {"get_pressure_chamber", "get_vacuum_chamber", "get_output_pressure",
     "get_internal_sensor_data", "get_status_word", "get_warning_word",
     "get_error_word", "get_modbus_error_word"}

C22_ForwardsExactlyOnce ==
    (pc = "ready" /\ op \notin {"none", "PGVA"})
    => /\ Len(backendCalls) = 1
       /\ backendCalls[1].call = BackendMethodOf(op)
       /\ backendCalls[1].arg = arg
       /\ result = backendCalls[1].resp.result
       /\ ret = IF op \in FacadeGetters /\ result = "returned"
                  THEN backendCalls[1].resp.ret
                  ELSE RetNone

(***************************************************************************)
(* C30: whenever the facade constructor returns without raising, for any   *)
(* configuration object including a plain PGVAConfig, the facade holds a   *)
(* backend.                                                                *)
(***************************************************************************)
C30_ConstructedFacadeHoldsBackend == pc = "ready" => backend # Unset

====
